---- MODULE Spec2Model ----
(***************************************************************************)
(* Model of the Supervisor API gateway add-on (src/app.py): the key store, *)
(* the authenticator, the admission pipeline (security_middleware), the    *)
(* sliding-window rate limiter and the key-management endpoints.           *)
(*                                                                         *)
(* Time is a discrete clock `now`; every handler reads the clock once.     *)
(* Timestamps are stored the way the code stores them, as the isoformat    *)
(* text of a datetime, and parsed back where the code parses them.         *)
(* A key record is a Python dict: a function whose DOMAIN is the set of    *)
(* keys the dict currently holds (a key the code never set is absent).     *)
(* The write-once metadata fields description and created_at, which no     *)
(* handler ever reads back for a decision, are left out of the records.    *)
(***************************************************************************)
EXTENDS Integers, Sequences, FiniteSets, TLC

VARIABLES
    config,            \* in-memory add-on options, loaded once at start-up
    keys_db,           \* hash -> key record (in memory)
    disk,              \* the persisted key database (/data/keys.json)
    fs_writable,       \* whether a write of the key database succeeds
    rate_limit_store,  \* client id -> list of request timestamps
    addon_options,     \* api_keys list of the add-on options held by the Supervisor
    restart_threads,   \* background restart threads started and not yet run
    auto_rotations,    \* auto-rotate requests between their read and their write
    threads,           \* request threads inside a KeyStore or RateLimiter call
    hass,              \* the custom component inside Home Assistant: its
                       \* configuration.yaml section, hass.data[DOMAIN], its views
    now,               \* the wall clock
    last               \* the last operation: its inputs and its observable result

vars == <<config, keys_db, disk, fs_writable, rate_limit_store, addon_options,
          restart_threads, auto_rotations, threads, hass, now, last>>

----------------------------------------------------------------------------
(* Bounds of the model *)

MaxTime == 2
MaxUsage == 1
MaxConcurrent == 2

(* Number of clock ticks in timedelta(hours=1): the hour is scaled down so that
   a grace period can run out within MaxTime *)
Hour == 2

(* One clock tick is timedelta(minutes=1) *)
Minute == 1

Secrets == {"k1", "k2"}
HaToken == "ha-token"
Addresses == {"10.0.0.1", "203.0.113.9"}
KeyNames == {"A"}
GraceHours == {0, 1}
MasterKey == "mk"

----------------------------------------------------------------------------
(* Values *)

NoneVal == [none |-> TRUE]

isoformat(t) == [iso |-> t]

fromisoformat(s) == s.iso

Put(rec, k, v) == [f \in DOMAIN rec \cup {k} |-> IF f = k THEN v ELSE rec[f]]

Has(rec, k) == k \in DOMAIN rec

Get(rec, k, default) == IF k \in DOMAIN rec THEN rec[k] ELSE default

EmptyDb == [h \in {} |-> NoneVal]

----------------------------------------------------------------------------
(* KeyStore *)

hash_key(key) == "sha256:" \o key

save_keys_db(db, old_disk, writable) == IF writable THEN db ELSE old_disk

add_key(db, key, name) ==
    Put(db, hash_key(key),
        [hash |-> hash_key(key), name |-> name, last_used |-> NoneVal,
         status |-> "active", usage_count |-> 0])

(* Faulty variant: the lookup counts twice *)
find_key_counting_twice(db, provided_key, t) ==
    LET key_hash == hash_key(provided_key) IN
    IF key_hash \in DOMAIN db
    THEN LET used == Put(Put(db[key_hash], "last_used", isoformat(t)),
                         "usage_count", Get(db[key_hash], "usage_count", 0) + 2)
         IN [found |-> TRUE, db |-> Put(db, key_hash, used), saved |-> TRUE]
    ELSE [found |-> FALSE, db |-> db, saved |-> FALSE]

(* Faulty variant: the last-used time is stamped on every record *)
find_key_stamping_all(db, provided_key, t) ==
    LET key_hash == hash_key(provided_key) IN
    IF key_hash \in DOMAIN db
    THEN LET stamped == [h \in DOMAIN db |-> Put(db[h], "last_used", isoformat(t))]
             used == Put(stamped[key_hash], "usage_count",
                         Get(db[key_hash], "usage_count", 0) + 1)
         IN [found |-> TRUE, db |-> Put(stamped, key_hash, used), saved |-> TRUE]
    ELSE [found |-> FALSE, db |-> db, saved |-> FALSE]

find_key(db, provided_key, t) ==
    LET key_hash == hash_key(provided_key) IN
    IF key_hash \in DOMAIN db
    THEN LET used == Put(Put(db[key_hash], "last_used", isoformat(t)),
                         "usage_count", Get(db[key_hash], "usage_count", 0) + 1)
         IN [found |-> TRUE, db |-> Put(db, key_hash, used), saved |-> TRUE]
    ELSE [found |-> FALSE, db |-> db, saved |-> FALSE]

(* Faulty variant: success is reported for an unknown hash too *)
revoke_key_always_true(db, key_hash, t) ==
    [ret |-> TRUE, saved |-> FALSE, db |-> db]

revoke_key(db, key_hash, t) ==
    IF key_hash \in DOMAIN db
    THEN [ret |-> TRUE, saved |-> TRUE,
          db |-> Put(db, key_hash,
                     Put(Put(db[key_hash], "status", "revoked"),
                         "revoked_at", isoformat(t)))]
    ELSE [ret |-> FALSE, saved |-> FALSE, db |-> db]

(* Faulty variant: the grace period counted in minutes *)
deprecate_key_grace_in_minutes(db, key_hash, grace_hours, t) ==
    IF key_hash \in DOMAIN db
    THEN [ret |-> TRUE, saved |-> TRUE,
          db |-> Put(db, key_hash,
                     Put(Put(Put(db[key_hash], "status", "deprecated"),
                             "deprecated_at", isoformat(t)),
                         "grace_until", isoformat(t + grace_hours * Minute)))]
    ELSE [ret |-> FALSE, saved |-> FALSE, db |-> db]

deprecate_key(db, key_hash, grace_hours, t) ==
    IF key_hash \in DOMAIN db
    THEN [ret |-> TRUE, saved |-> TRUE,
          db |-> Put(db, key_hash,
                     Put(Put(Put(db[key_hash], "status", "deprecated"),
                             "deprecated_at", isoformat(t)),
                         "grace_until", isoformat(t + grace_hours * Hour)))]
    ELSE [ret |-> FALSE, saved |-> FALSE, db |-> db]

Expired(rec, t) ==
    /\ rec["status"] = "deprecated"
    /\ t > fromisoformat(rec["grace_until"])

(* Faulty variant: the sweep revokes every deprecated record *)
cleanup_expired_keys_ignoring_grace(db, t) ==
    [saved |-> \E h \in DOMAIN db : db[h]["status"] = "deprecated",
     db |-> [h \in DOMAIN db |->
                IF db[h]["status"] = "deprecated"
                THEN Put(Put(db[h], "status", "revoked"), "revoked_at", isoformat(t))
                ELSE db[h]]]

cleanup_expired_keys(db, t) ==
    [saved |-> \E h \in DOMAIN db : Expired(db[h], t),
     db |-> [h \in DOMAIN db |->
                IF Expired(db[h], t)
                THEN Put(Put(db[h], "status", "revoked"), "revoked_at", isoformat(t))
                ELSE db[h]]]

MigratedName(i) == "Migrated Key " \o ToString(i)

RECURSIVE MigrateFrom(_, _, _)
MigrateFrom(db, legacy_keys, i) ==
    IF i > Len(legacy_keys) THEN db
    ELSE IF hash_key(legacy_keys[i]) \notin DOMAIN db
         THEN MigrateFrom(add_key(db, legacy_keys[i], MigratedName(i)), legacy_keys, i + 1)
         ELSE MigrateFrom(db, legacy_keys, i + 1)

(* Faulty variant: a listed secret is added whether or not its hash is in
   the table *)
migrate_legacy_keys_overwriting(db, legacy_keys) ==
    LET listed == {hash_key(legacy_keys[i]) : i \in 1..Len(legacy_keys)}
        position(h) == CHOOSE i \in 1..Len(legacy_keys) : hash_key(legacy_keys[i]) = h
    IN  [db |-> [h \in DOMAIN db \cup listed |->
                    IF h \in listed
                    THEN [hash |-> h, name |-> MigratedName(position(h)),
                          last_used |-> NoneVal, status |-> "active", usage_count |-> 0]
                    ELSE db[h]],
         saved |-> listed # {}]

migrate_legacy_keys(db, legacy_keys) ==
    [db |-> MigrateFrom(db, legacy_keys, 1),
     saved |-> \E i \in 1..Len(legacy_keys) : hash_key(legacy_keys[i]) \notin DOMAIN db]

----------------------------------------------------------------------------
(* Upstream token validation *)

ApiRunning == "API running."

UpstreamResponses ==
    {[kind |-> "response", status_code |-> 200, message |-> ApiRunning],
     [kind |-> "response", status_code |-> 200, message |-> "other"],
     [kind |-> "response", status_code |-> 401, message |-> ""],
     [kind |-> "exception"]}

(* Faulty variant: any reply with status 200 validates the token *)
validate_ha_token_any_200(upstream) ==
    /\ upstream.kind = "response"
    /\ upstream.status_code = 200

validate_ha_token(upstream) ==
    /\ upstream.kind = "response"
    /\ upstream.status_code = 200
    /\ upstream.message = ApiRunning

----------------------------------------------------------------------------
(* Requests to a protected operation.  ip is the address get_client_ip
   resolves, ingress says whether an X-Ingress-Path header is present, and
   authorization is the Authorization header: <<>> when missing, else
   <<scheme, token>>. *)

BearerScheme == "Bearer "

Tokens == Secrets \cup {HaToken}

Requests ==
    [ip : Addresses, ingress : BOOLEAN,
     authorization : {<<>>} \cup {<<BearerScheme, tok>> : tok \in Tokens}]

NoResponse == [kind |-> "not called"]

NoMessage == ""

from_ingress(req) == req.ingress

(* Faulty variant: the kill-switch read under a wrong option name *)
check_emergency_disable_wrong_option(cfg) == Get(cfg, "emergency_disable", FALSE)

check_emergency_disable(cfg) == Get(cfg, "enable_emergency_disable", FALSE)

(* Faulty variant: an empty allow-list admits nobody *)
check_ip_whitelist_empty_denies(cfg, client_ip) ==
    client_ip \in Get(cfg, "ip_whitelist", {})

check_ip_whitelist(cfg, client_ip) ==
    LET whitelist == Get(cfg, "ip_whitelist", {}) IN
    IF whitelist = {} THEN TRUE ELSE client_ip \in whitelist

(* Faulty variant: the allow-list applied to ingress requests too *)
whitelist_passed_without_bypass(cfg, req) == check_ip_whitelist(cfg, req.ip)

whitelist_passed(cfg, req) == from_ingress(req) \/ check_ip_whitelist(cfg, req.ip)

----------------------------------------------------------------------------
(* RateLimiter *)

(* Faulty variant: the window is never pruned *)
trailing_hour_unpruned(window, t) == window

(* The entries check_rate_limit keeps: those younger than one hour *)
trailing_hour(window, t) == SelectSeq(window, LAMBDA ts : ts > t - Hour)

(* Faulty variant: the whole window counted against the per-minute limit *)
requests_last_minute_whole_window(window, t) == Len(window)

requests_last_minute(window, t) == Len(SelectSeq(window, LAMBDA ts : ts > t - Minute))

(* Faulty variant: one request more than the limit is let through *)
limit_reached_above_only(count, limit) == count > limit

limit_reached(count, limit) == count >= limit

(* Faulty variant: a denied check is charged to the window too *)
check_rate_limit_charging_denied(store, client_id, cfg, t) ==
    LET pruned == trailing_hour(Get(store, client_id, <<>>), t)
        denied == \/ limit_reached(requests_last_minute(pruned, t), cfg.rate_limit_per_minute)
                  \/ limit_reached(Len(pruned), cfg.rate_limit_per_hour)
    IN  [allowed |-> ~denied,
         error |-> IF denied THEN "Rate limit exceeded" ELSE NoMessage,
         store |-> Put(store, client_id, Append(pruned, t))]

check_rate_limit(store, client_id, cfg, t) ==
    LET pruned == trailing_hour(Get(store, client_id, <<>>), t)
        requests_last_hour == Len(pruned)
    IN  IF limit_reached(requests_last_minute(pruned, t), cfg.rate_limit_per_minute)
        THEN [allowed |-> FALSE, error |-> "Rate limit exceeded: per minute",
              store |-> Put(store, client_id, pruned)]
        ELSE IF limit_reached(requests_last_hour, cfg.rate_limit_per_hour)
        THEN [allowed |-> FALSE, error |-> "Rate limit exceeded: per hour",
              store |-> Put(store, client_id, pruned)]
        ELSE [allowed |-> TRUE, error |-> NoMessage,
              store |-> Put(store, client_id, Append(pruned, t))]

----------------------------------------------------------------------------
(* Authenticator *)

IngressTokenData == [name |-> "Home Assistant Ingress", status |-> "active"]

HaTokenData == [name |-> "Home Assistant Token", status |-> "active"]

(* Faulty variant: the status compared with a misspelt value *)
is_revoked_misspelt(key_data) == key_data["status"] = "Revoked"

is_revoked(key_data) == key_data["status"] = "revoked"

(* Faulty variant: the comparison turned round *)
past_grace_reversed(key_data, t) == t < fromisoformat(key_data["grace_until"])

(* Faulty variant: the grace period ends one instant early *)
past_grace_inclusive(key_data, t) == t >= fromisoformat(key_data["grace_until"])

past_grace(key_data, t) == t > fromisoformat(key_data["grace_until"])

AuthFailure(auth_mode) ==
    IF auth_mode = "api_key" THEN "Invalid API key"
    ELSE IF auth_mode = "homeassistant" THEN "Invalid Home Assistant token"
    ELSE "Invalid API key or Home Assistant token"

(* The upstream strategy and the final failure of authenticate_request *)
try_ha_token(db, saved, auth_mode, upstream) ==
    IF auth_mode \in {"homeassistant", "both"} /\ validate_ha_token(upstream)
    THEN [authenticated |-> TRUE, error |-> NoMessage, key_data |-> HaTokenData,
          db |-> db, saved |-> saved,
          strategies |-> IF auth_mode = "both" THEN <<"api_key", "homeassistant">>
                         ELSE <<"homeassistant">>]
    ELSE [authenticated |-> FALSE, error |-> AuthFailure(auth_mode), key_data |-> NoneVal,
          db |-> db, saved |-> saved,
          strategies |-> IF auth_mode = "both" THEN <<"api_key", "homeassistant">>
                         ELSE IF auth_mode = "homeassistant" THEN <<"homeassistant">>
                         ELSE <<"api_key">>]

(* The local-key strategy, entered when auth_mode is api_key or both *)
try_api_key(db, auth_mode, provided_token, upstream, t) ==
    LET f == find_key(db, provided_token, t)
        key_hash == hash_key(provided_token)
    IN  IF ~f.found THEN try_ha_token(db, FALSE, auth_mode, upstream)
        ELSE IF is_revoked(f.db[key_hash])
        THEN [authenticated |-> FALSE, error |-> "API key has been revoked",
              key_data |-> NoneVal, db |-> f.db, saved |-> TRUE,
              strategies |-> <<"api_key">>]
        ELSE IF f.db[key_hash]["status"] = "deprecated" /\ past_grace(f.db[key_hash], t)
        THEN [authenticated |-> FALSE,
              error |-> "API key has expired (past grace period)",
              key_data |-> NoneVal, db |-> revoke_key(f.db, key_hash, t).db,
              saved |-> TRUE, strategies |-> <<"api_key">>]
        ELSE [authenticated |-> TRUE, error |-> NoMessage, key_data |-> f.db[key_hash],
              db |-> f.db, saved |-> TRUE, strategies |-> <<"api_key">>]

(* Faulty variant: a bearer is tried against the key table before the ingress
   marker is looked at *)
authenticate_request_bearer_first(db, cfg, req, upstream, t) ==
    LET auth_mode == Get(cfg, "auth_mode", "api_key") IN
    IF Len(req.authorization) = 2 /\ auth_mode \in {"api_key", "both"}
    THEN try_api_key(db, auth_mode, req.authorization[2], upstream, t)
    ELSE IF from_ingress(req)
    THEN [authenticated |-> TRUE, error |-> NoMessage, key_data |-> IngressTokenData,
          db |-> db, saved |-> FALSE, strategies |-> <<"ingress">>]
    ELSE [authenticated |-> FALSE, error |-> "Missing or invalid Authorization header",
          key_data |-> NoneVal, db |-> db, saved |-> FALSE, strategies |-> <<>>]

authenticate_request(db, cfg, req, upstream, t) ==
    LET auth_mode == Get(cfg, "auth_mode", "api_key") IN
    IF from_ingress(req)
    THEN [authenticated |-> TRUE, error |-> NoMessage, key_data |-> IngressTokenData,
          db |-> db, saved |-> FALSE, strategies |-> <<"ingress">>]
    ELSE IF ~(Len(req.authorization) = 2 /\ req.authorization[1] = BearerScheme)
    THEN [authenticated |-> FALSE, error |-> "Missing or invalid Authorization header",
          key_data |-> NoneVal, db |-> db, saved |-> FALSE, strategies |-> <<>>]
    ELSE IF auth_mode \in {"api_key", "both"}
    THEN try_api_key(db, auth_mode, req.authorization[2], upstream, t)
    ELSE try_ha_token(db, FALSE, auth_mode, upstream)

----------------------------------------------------------------------------
(* AdmissionPipeline.  The result names the stages that were evaluated
   (trace), the audit category written, the response, and whether the wrapped
   operation ran. *)

(* Faulty variant: only admitted requests are recorded *)
audit_log_success_only(log, status, key_name) ==
    IF status = "success"
    THEN Append(log, [event |-> "audit", status |-> status, key_name |-> key_name])
    ELSE log

(* audit_log writes one structured record to the log *)
audit_log(log, status, key_name) ==
    Append(log, [event |-> "audit", status |-> status, key_name |-> key_name])

(* What a handler does after its log records: it returns a response of its
   own, or it calls the wrapped operation *)
Responded(log) == Append(log, [event |-> "respond"])

Called(log) == Append(log, [event |-> "call"])

security_middleware(db, store, cfg, req, upstream, t) ==
    IF check_emergency_disable(cfg)
    THEN [resp |-> 503, error |-> "Service temporarily disabled", executed |-> FALSE,
          authenticated |-> FALSE,
          audit |-> "blocked", key_name |-> "unknown", trace |-> <<"emergency">>,
          events |-> Responded(audit_log(<<>>, "blocked", "unknown")),
          strategies |-> <<>>, db |-> db, saved |-> FALSE, store |-> store]
    ELSE IF ~whitelist_passed(cfg, req)
    THEN [resp |-> 403, error |-> "Access denied: IP not whitelisted", executed |-> FALSE,
          authenticated |-> FALSE,
          audit |-> "blocked", key_name |-> "unknown",
          trace |-> <<"emergency", "whitelist">>,
          events |-> Responded(audit_log(<<>>, "blocked", "unknown")),
          strategies |-> <<>>, db |-> db, saved |-> FALSE, store |-> store]
    ELSE
    LET a == authenticate_request(db, cfg, req, upstream, t) IN
    IF ~a.authenticated
    THEN [resp |-> 401, error |-> a.error, executed |-> FALSE,
          authenticated |-> FALSE,
          audit |-> "auth_failed", key_name |-> "unknown",
          events |-> Responded(audit_log(<<>>, "auth_failed", "unknown")),
          trace |-> <<"emergency", "whitelist", "auth">>,
          strategies |-> a.strategies, db |-> a.db, saved |-> a.saved, store |-> store]
    ELSE
    LET key_name == Get(a.key_data, "name", "unknown")
        client_id == req.ip \o ":" \o key_name
        r == check_rate_limit(store, client_id, cfg, t)
    IN  IF ~r.allowed
        THEN [resp |-> 429, error |-> r.error, executed |-> FALSE,
              authenticated |-> TRUE,
              audit |-> "rate_limited", key_name |-> key_name,
              events |-> Responded(audit_log(<<>>, "rate_limited", key_name)),
              trace |-> <<"emergency", "whitelist", "auth", "rate">>,
              strategies |-> a.strategies, db |-> a.db, saved |-> a.saved,
              store |-> r.store]
        ELSE [resp |-> 200, error |-> NoMessage, executed |-> TRUE,
              authenticated |-> TRUE,
              audit |-> "success", key_name |-> key_name,
              events |-> Called(audit_log(<<>>, "success", key_name)),
              trace |-> <<"emergency", "whitelist", "auth", "rate">>,
              strategies |-> a.strategies, db |-> a.db, saved |-> a.saved,
              store |-> r.store]

----------------------------------------------------------------------------
(* Management endpoints *)

(* Faulty variant: a missing master key lets every caller in *)
management_auth_open_when_unset(cfg, x_master_key) ==
    IF Get(cfg, "master_key", "") # "" /\ x_master_key # cfg.master_key
    THEN [ok |-> FALSE, resp |-> 403, error |-> "Invalid master key"]
    ELSE [ok |-> TRUE, resp |-> 200, error |-> NoMessage]

management_auth(cfg, x_master_key) ==
    IF Get(cfg, "master_key", "") = ""
    THEN [ok |-> FALSE, resp |-> 503, error |-> "Master key not configured"]
    ELSE IF x_master_key # cfg.master_key
    THEN [ok |-> FALSE, resp |-> 403, error |-> "Invalid master key"]
    ELSE [ok |-> TRUE, resp |-> 200, error |-> NoMessage]

(* generate_api_key draws a token of 64 random bytes: one no store holds yet
   and no request in flight has drawn *)
Unused(pool) ==
    {s \in pool :
        /\ hash_key(s) \notin DOMAIN keys_db
        /\ hash_key(s) \notin DOMAIN disk
        /\ \A i \in 1..Len(addon_options) : addon_options[i] # s
        /\ \A p \in auto_rotations : p.new_key # s}

FreshSecrets == Unused(Secrets)

(* The tokens concurrent rotations can draw: one more than Secrets, so that two
   rotations of an existing key can be in flight together *)
RotationSecrets == Secrets \cup {"k3"}

MasterKeyHeaders == {MasterKey, "wrong"}

HashInputs == {hash_key(s) : s \in Secrets} \cup {""}

ExternalOutcomes == {"ok", "not_ok", "exception"}

(* What an operation leaves for the caller to observe *)
Outcome(op, req, resp, error, executed, new_key) ==
    [op |-> op, req |-> req, resp |-> resp, error |-> error, executed |-> executed,
     new_key |-> new_key, authenticated |-> FALSE, audit |-> "none", key_name |-> "",
     events |-> IF resp = 0 THEN <<>> ELSE Responded(<<>>),
     body |-> NoneVal, upstream |-> NoResponse,
     trace |-> <<>>, strategies |-> <<>>]

Rejected(op, req, resp, error) ==
    /\ last' = Outcome(op, req, resp, error, FALSE, "")
    /\ UNCHANGED <<hass, threads, auto_rotations, config, keys_db, disk, fs_writable, rate_limit_store, addon_options,
                   restart_threads, now>>

generate_key(x_master_key, name) ==
    LET req == [x_master_key |-> x_master_key, name |-> name]
        auth == management_auth(config, x_master_key)
    IN  IF ~auth.ok THEN Rejected("generate-key", req, auth.resp, auth.error)
        ELSE \E new_key \in FreshSecrets :
            /\ keys_db' = add_key(keys_db, new_key, name)
            /\ disk' = save_keys_db(keys_db', disk, fs_writable)
            /\ last' = Outcome("generate-key", req, 200, NoMessage, TRUE, new_key)
            /\ UNCHANGED <<hass, threads, auto_rotations, config, fs_writable, rate_limit_store, addon_options,
                           restart_threads, now>>

rotate_key(x_master_key, old_key_hash, grace_hours) ==
    LET req == [x_master_key |-> x_master_key, key_hash |-> old_key_hash,
                grace_hours |-> grace_hours]
        auth == management_auth(config, x_master_key)
    IN  IF ~auth.ok THEN Rejected("rotate-key", req, auth.resp, auth.error)
        ELSE IF old_key_hash = ""
        THEN Rejected("rotate-key", req, 400, "old_key_hash required")
        ELSE IF old_key_hash \notin DOMAIN keys_db
        THEN Rejected("rotate-key", req, 404, "Key not found")
        ELSE \E new_key \in FreshSecrets :
            LET old_key_data == keys_db[old_key_hash]
                deprecated == deprecate_key(keys_db, old_key_hash, grace_hours, now)
            IN  /\ keys_db' = add_key(deprecated.db, new_key,
                                      old_key_data["name"] \o " (rotated)")
                /\ disk' = save_keys_db(keys_db', disk, fs_writable)
                /\ last' = Outcome("rotate-key", req, 200, NoMessage, TRUE, new_key)
                /\ UNCHANGED <<hass, threads, auto_rotations, config, fs_writable, rate_limit_store, addon_options,
                               restart_threads, now>>

(* Faulty variant: the status of the write reply is not looked at *)
write_succeeded_unless_raised(write) == write # "exception"

(* The POST of the options returned with response.ok *)
write_succeeded(write) == write = "ok"

(* Faulty variant: a grace of 0 hours deprecates too *)
has_grace_from_zero(grace_hours) == grace_hours >= 0

has_grace(grace_hours) == grace_hours > 0

(* auto_rotate_key up to the reply of the GET of the add-on options.  The
   handler blocks in the two Supervisor calls, where other requests of the
   threaded server run: the request is in auto_rotations between them. *)
auto_rotate_key(x_master_key, old_key_hash, grace_hours, read) ==
    LET req == [x_master_key |-> x_master_key, key_hash |-> old_key_hash,
                grace_hours |-> grace_hours, read |-> read, write |-> "not called"]
        auth == management_auth(config, x_master_key)
    IN  IF ~auth.ok THEN Rejected("auto-rotate", req, auth.resp, auth.error)
        ELSE IF old_key_hash = ""
        THEN Rejected("auto-rotate", req, 400, "old_key_hash required")
        ELSE IF old_key_hash \notin DOMAIN keys_db
        THEN Rejected("auto-rotate", req, 404, "Key not found")
        ELSE IF read = "not_ok"
        THEN Rejected("auto-rotate", req, 500, "Failed to read current addon configuration")
        ELSE IF read = "exception"
        THEN Rejected("auto-rotate", req, 500, "Failed to access Supervisor API")
        ELSE /\ Cardinality(auto_rotations) < MaxConcurrent
             /\ \E new_key \in Unused(RotationSecrets) :
                    auto_rotations' = auto_rotations \cup
                        {[req |-> req, new_key |-> new_key,
                          current_config |-> addon_options]}
             /\ last' = Outcome("auto-rotate-read", req, 0, NoMessage, FALSE, "")
             /\ UNCHANGED <<hass, threads, config, keys_db, disk, fs_writable, rate_limit_store,
                            addon_options, restart_threads, now>>

(* auto_rotate_key from the reply of the POST of the options to its response *)
auto_rotate_key_write(p, write) ==
    LET req == [p.req EXCEPT !.write = write]
        old_key_hash == req.key_hash
    IN  /\ p \in auto_rotations
        /\ auto_rotations' = auto_rotations \ {p}
        /\ IF ~write_succeeded(write)
           THEN /\ last' = Outcome("auto-rotate", req, 500,
                                   IF write = "exception"
                                   THEN "Failed to write configuration"
                                   ELSE "Failed to update addon configuration",
                                   FALSE, "")
                /\ addon_options' = IF write = "ok"
                                    THEN Append(p.current_config, p.new_key)
                                    ELSE addon_options
                /\ UNCHANGED <<hass, threads, config, keys_db, disk, fs_writable, rate_limit_store,
                               restart_threads, now>>
           ELSE LET added == add_key(keys_db, p.new_key,
                                     keys_db[old_key_hash]["name"] \o " (auto-rotated)")
                IN  /\ addon_options' = IF write = "ok"
                                        THEN Append(p.current_config, p.new_key)
                                        ELSE addon_options
                    /\ keys_db' = IF has_grace(req.grace_hours)
                                  THEN deprecate_key(added, old_key_hash,
                                                     req.grace_hours, now).db
                                  ELSE revoke_key(added, old_key_hash, now).db
                    /\ disk' = save_keys_db(keys_db', disk, fs_writable)
                    /\ restart_threads' = restart_threads + 1
                    /\ last' = Outcome("auto-rotate", req, 200, NoMessage, TRUE, p.new_key)
                    /\ UNCHANGED <<hass, threads, config, fs_writable, rate_limit_store, now>>

revoke_key_endpoint(x_master_key, key_hash) ==
    LET req == [x_master_key |-> x_master_key, key_hash |-> key_hash]
        auth == management_auth(config, x_master_key)
        revoked == revoke_key(keys_db, key_hash, now)
    IN  IF ~auth.ok THEN Rejected("revoke-key", req, auth.resp, auth.error)
        ELSE IF key_hash = ""
        THEN Rejected("revoke-key", req, 400, "key_hash required")
        ELSE IF ~revoked.ret
        THEN Rejected("revoke-key", req, 404, "Key not found")
        ELSE /\ keys_db' = revoked.db
             /\ disk' = save_keys_db(keys_db', disk, fs_writable)
             /\ last' = Outcome("revoke-key", req, 200, NoMessage, TRUE, "")
             /\ UNCHANGED <<hass, threads, auto_rotations, config, fs_writable, rate_limit_store, addon_options,
                            restart_threads, now>>

(* The listing list_keys returns: grace_until is shown for deprecated records only *)
KeysListing(db) ==
    {[hash |-> h, name |-> db[h]["name"], status |-> db[h]["status"],
      last_used |-> Get(db[h], "last_used", NoneVal),
      usage_count |-> Get(db[h], "usage_count", 0),
      grace_until |-> IF db[h]["status"] = "deprecated"
                      THEN Get(db[h], "grace_until", NoneVal) ELSE NoneVal] :
        h \in DOMAIN db}

list_keys(x_master_key) ==
    LET req == [x_master_key |-> x_master_key]
        auth == management_auth(config, x_master_key)
    IN  IF ~auth.ok THEN Rejected("list-keys", req, auth.resp, auth.error)
        ELSE /\ last' = [Outcome("list-keys", req, 200, NoMessage, TRUE, "")
                            EXCEPT !.body = [keys |-> KeysListing(keys_db),
                                             total |-> Cardinality(DOMAIN keys_db)]]
             /\ UNCHANGED <<hass, threads, auto_rotations, config, keys_db, disk, fs_writable,
                            rate_limit_store, addon_options, restart_threads, now>>

(* /health: no decorator, answers from the table *)
health_check ==
    /\ last' = [Outcome("health", NoneVal, 200, NoMessage, TRUE, "")
                   EXCEPT !.body =
                       [status |-> "healthy",
                        keys_active |-> Cardinality({h \in DOMAIN keys_db :
                                           keys_db[h]["status"] = "active"})]]
    /\ UNCHANGED <<hass, threads, auto_rotations, config, keys_db, disk, fs_writable,
                   rate_limit_store, addon_options, restart_threads, now>>

(* Every path no other route serves: no decorator, always 403 *)
catch_all ==
    Rejected("catch-all", NoneVal, 403, "Endpoint not allowed")

(* Faulty variant: a restart call that failed is made again *)
restart_addon_retrying(outcome) ==
    /\ restart_threads > 0
    /\ restart_threads' = IF outcome = "ok" THEN restart_threads - 1 ELSE restart_threads
    /\ last' = Outcome("restart-call", [outcome |-> outcome], 0, NoMessage, TRUE, "")
    /\ UNCHANGED <<hass, threads, auto_rotations, config, keys_db, disk, fs_writable, rate_limit_store, addon_options, now>>

(* Faulty variant: the thread waits until no auto-rotate request is in flight *)
restart_addon_after_requests(outcome) ==
    /\ restart_threads > 0
    /\ auto_rotations = {}
    /\ restart_threads' = restart_threads - 1
    /\ last' = Outcome("restart-call", [outcome |-> outcome], 0, NoMessage, TRUE, "")
    /\ UNCHANGED <<hass, threads, auto_rotations, config, keys_db, disk, fs_writable, rate_limit_store, addon_options, now>>

(* The background thread auto_rotate_key starts: one restart call, not retried *)
restart_addon(outcome) ==
    /\ restart_threads > 0
    /\ restart_threads' = restart_threads - 1
    /\ last' = Outcome("restart-call", [outcome |-> outcome], 0, NoMessage, TRUE, "")
    /\ UNCHANGED <<hass, threads, auto_rotations, config, keys_db, disk, fs_writable, rate_limit_store, addon_options, now>>

----------------------------------------------------------------------------
(* Request threads.  The server runs one thread per request and the KeyStore
   and the RateLimiter take no lock, so a call of one thread is interleaved
   with the calls of the others between its reads and its writes of keys_db,
   of the file and of rate_limit_store.  Each call below is cut at those
   points; a thread's locals are kept in its entry of threads. *)

Workers == 1..MaxConcurrent

Idle == [pc |-> "idle"]

(* A thread inside operation op on arg, holding local, about to do pc *)
Thread(pc, op, arg, local, ret) ==
    [pc |-> pc, op |-> op, arg |-> arg, local |-> local, ret |-> ret]

ClientIds == {"10.0.0.1:Migrated Key 1"}

(* find_key up to the evaluation of key_data.get("usage_count", 0): the
   membership test, the store of last_used and the read of the count *)
find_key_read(w, provided_key) ==
    LET key_hash == hash_key(provided_key) IN
    /\ threads[w] = Idle
    /\ IF key_hash \in DOMAIN keys_db
       THEN /\ keys_db' = Put(keys_db, key_hash,
                              Put(keys_db[key_hash], "last_used", isoformat(now)))
            /\ threads' = [threads EXCEPT ![w] =
                    Thread("find_key.store", "find_key", key_hash,
                           Get(keys_db[key_hash], "usage_count", 0), TRUE)]
       ELSE /\ keys_db' = keys_db
            /\ threads' = [threads EXCEPT ![w] =
                    Thread("returned", "find_key", key_hash, NoneVal, FALSE)]
    /\ UNCHANGED <<hass, config, disk, fs_writable, rate_limit_store, addon_options,
                   restart_threads, auto_rotations, now, last>>

(* The store key_data["usage_count"] = <the count read> + 1 *)
find_key_store(w) ==
    /\ threads[w].pc = "find_key.store"
    /\ LET key_hash == threads[w].arg IN
       keys_db' = Put(keys_db, key_hash,
                      Put(keys_db[key_hash], "usage_count", threads[w].local + 1))
    /\ threads' = [threads EXCEPT ![w] =
            Thread("save_keys_db.dump", "find_key", threads[w].arg, NoneVal, TRUE)]
    /\ UNCHANGED <<hass, config, disk, fs_writable, rate_limit_store, addon_options,
                   restart_threads, auto_rotations, now, last>>

(* revoke_key up to its call of save_keys_db *)
revoke_key_store(w, key_hash) ==
    /\ threads[w] = Idle
    /\ LET revoked == revoke_key(keys_db, key_hash, now) IN
       /\ keys_db' = revoked.db
       /\ threads' = [threads EXCEPT ![w] =
               Thread(IF revoked.ret THEN "save_keys_db.dump" ELSE "returned",
                      "revoke_key", key_hash, NoneVal, revoked.ret)]
    /\ UNCHANGED <<hass, config, disk, fs_writable, rate_limit_store, addon_options,
                   restart_threads, auto_rotations, now, last>>

(* add_key, called with a newly generated key, up to its call of save_keys_db *)
add_key_store(w, key, name) ==
    /\ threads[w] = Idle
    /\ key \in FreshSecrets
    /\ keys_db' = add_key(keys_db, key, name)
    /\ threads' = [threads EXCEPT ![w] =
            Thread("save_keys_db.dump", "add_key", hash_key(key), NoneVal, TRUE)]
    /\ UNCHANGED <<hass, config, disk, fs_writable, rate_limit_store, addon_options,
                   restart_threads, auto_rotations, now, last>>

(* save_keys_db: json.dump serialises the table into the buffer of the file
   object *)
save_keys_db_dump(w) ==
    /\ threads[w].pc = "save_keys_db.dump"
    /\ threads' = [threads EXCEPT ![w] =
            Thread("save_keys_db.close", threads[w].op, threads[w].arg, keys_db,
                   threads[w].ret)]
    /\ UNCHANGED <<hass, config, keys_db, disk, fs_writable, rate_limit_store, addon_options,
                   restart_threads, auto_rotations, now, last>>

(* save_keys_db: leaving the with block flushes the buffer to the file; the
   caller returns *)
save_keys_db_close(w) ==
    /\ threads[w].pc = "save_keys_db.close"
    /\ disk' = save_keys_db(threads[w].local, disk, fs_writable)
    /\ threads' = [threads EXCEPT ![w] =
            Thread("returned", threads[w].op, threads[w].arg, NoneVal, threads[w].ret)]
    /\ UNCHANGED <<hass, config, keys_db, fs_writable, rate_limit_store, addon_options,
                   restart_threads, auto_rotations, now, last>>

(* check_rate_limit: the list comprehension over rate_limit_store[client_id];
   the defaultdict inserts an empty window for an identity not seen before *)
check_rate_limit_prune(w, client_id) ==
    /\ threads[w] = Idle
    /\ rate_limit_store' = IF client_id \in DOMAIN rate_limit_store
                           THEN rate_limit_store
                           ELSE Put(rate_limit_store, client_id, <<>>)
    /\ threads' = [threads EXCEPT ![w] =
            Thread("check_rate_limit.assign", "check_rate_limit", client_id,
                   [ts |-> now,
                    pruned |-> trailing_hour(Get(rate_limit_store, client_id, <<>>), now)],
                   FALSE)]
    /\ UNCHANGED <<hass, config, keys_db, disk, fs_writable, addon_options,
                   restart_threads, auto_rotations, now, last>>

(* check_rate_limit: rate_limit_store[client_id] = <the pruned list> *)
check_rate_limit_assign(w) ==
    /\ threads[w].pc = "check_rate_limit.assign"
    /\ rate_limit_store' = Put(rate_limit_store, threads[w].arg, threads[w].local.pruned)
    /\ threads' = [threads EXCEPT ![w].pc = "check_rate_limit.count"]
    /\ UNCHANGED <<hass, config, keys_db, disk, fs_writable, addon_options,
                   restart_threads, auto_rotations, now, last>>

(* check_rate_limit: the two counts and the two comparisons *)
check_rate_limit_count(w) ==
    /\ threads[w].pc = "check_rate_limit.count"
    /\ LET window == rate_limit_store[threads[w].arg]
           denied == \/ limit_reached(requests_last_minute(window, threads[w].local.ts),
                                       config.rate_limit_per_minute)
                     \/ limit_reached(Len(window), config.rate_limit_per_hour)
       IN  threads' = [threads EXCEPT ![w].pc =
               IF denied THEN "returned" ELSE "check_rate_limit.append"]
    /\ UNCHANGED <<hass, config, keys_db, disk, fs_writable, rate_limit_store, addon_options,
                   restart_threads, auto_rotations, now, last>>

(* check_rate_limit: rate_limit_store[client_id].append(now); return True *)
check_rate_limit_append(w) ==
    /\ threads[w].pc = "check_rate_limit.append"
    /\ rate_limit_store' = Put(rate_limit_store, threads[w].arg,
                               Append(rate_limit_store[threads[w].arg], threads[w].local.ts))
    /\ threads' = [threads EXCEPT ![w].pc = "returned", ![w].ret = TRUE]
    /\ UNCHANGED <<hass, config, keys_db, disk, fs_writable, addon_options,
                   restart_threads, auto_rotations, now, last>>

----------------------------------------------------------------------------
(* The custom component supervisor_gateway, which runs inside Home Assistant
   and not in the add-on process.  conf is the supervisor_gateway section of
   configuration.yaml, a function from option names to values. *)

ComponentApiKey == "ak"

NoConf == [o \in {} |-> NoneVal]

ComponentConfs ==
    {NoConf}
    \cup {[o \in {"api_key"} |-> ComponentApiKey]}
    \cup {[api_key |-> ComponentApiKey, ip_whitelist |-> w] : w \in {{}, {"10.0.0.1"}}}

(* The component before async_setup, and as seen from the add-on *)
NotSetUp == [conf |-> NoConf, registered |-> FALSE, data |-> NoConf]

(* CONFIG_SCHEMA declares api_key alone for the section.  Whether the
   validation library lets an undeclared option of the section pass is
   outside this repository: extra_allowed is either answer. *)
CONFIG_SCHEMA(conf, extra_allowed) ==
    \/ DOMAIN conf \subseteq {"api_key"}
    \/ extra_allowed

(* __init__.async_setup: hass.data[DOMAIN] gets the api_key option and nothing
   else, and the views are registered; a section the schema rejects leaves the
   component not set up *)
async_setup(conf, extra_allowed) ==
    IF CONFIG_SCHEMA(conf, extra_allowed)
    THEN [conf |-> conf, registered |-> TRUE,
          data |-> [o \in DOMAIN conf \cap {"api_key"} |-> conf[o]]]
    ELSE [conf |-> conf, registered |-> FALSE, data |-> NoConf]

ApiKeyHeaders == {"", ComponentApiKey, "other"}

(* A request to a view: the three headers and the peer address the client
   address is taken from, and the x-api-key header ("" when missing) *)
ComponentRequests ==
    [forwarded_for : {"", "10.0.0.1", "203.0.113.9"},
     real_ip : {"", "203.0.113.9"},
     remote : {"10.0.0.1"},
     x_api_key : ApiKeyHeaders]

api_get_client_ip(request) ==
    IF request.forwarded_for # "" THEN request.forwarded_for
    ELSE IF request.real_ip # "" THEN request.real_ip
    ELSE request.remote

validate_api_key(data, request) ==
    /\ Has(data, "api_key")
    /\ request.x_api_key # ""
    /\ request.x_api_key = data["api_key"]

validate_ip_whitelist(data, request) ==
    \/ ~Has(data, "ip_whitelist")
    \/ data["ip_whitelist"] = {}
    \/ api_get_client_ip(request) \in data["ip_whitelist"]

(* Home Assistant starts with this section in configuration.yaml *)
home_assistant_start(conf, extra_allowed) ==
    /\ hass' = async_setup(conf, extra_allowed)
    /\ last' = Outcome("async_setup", NoneVal, 0, NoMessage, TRUE, "")
    /\ UNCHANGED <<threads, auto_rotations, config, keys_db, disk, fs_writable,
                   rate_limit_store, addon_options, restart_threads, now>>

AddonViews == {"addons", "addon", "action"}

AddonActions == {"update", "start", "stop", "restart"}

(* get of SupervisorGatewayAddonsView and SupervisorGatewayAddonView, post of
   SupervisorGatewayAddonActionView: the allow-list, the x-api-key, the action
   name, then the Supervisor call whose status is passed on *)
addon_view(view, request, action, supervisor) ==
    LET resp == IF ~hass.registered THEN 404
                ELSE IF ~validate_ip_whitelist(hass.data, request) THEN 403
                ELSE IF ~validate_api_key(hass.data, request) THEN 401
                ELSE IF view = "action" /\ action \notin AddonActions THEN 400
                ELSE IF supervisor = "ok" THEN 200
                ELSE 500
    IN  /\ last' = [Outcome("component-" \o view,
                            [request |-> request, action |-> action,
                             supervisor |-> supervisor],
                            resp, NoMessage, resp = 200, "")
                      EXCEPT !.trace =
                          IF ~hass.registered THEN <<>>
                          ELSE IF resp = 403 THEN <<"whitelist">>
                          ELSE <<"whitelist", "api_key">>]
        /\ UNCHANGED <<hass, threads, auto_rotations, config, keys_db, disk, fs_writable,
                       rate_limit_store, addon_options, restart_threads, now>>

----------------------------------------------------------------------------
(* Protected operations *)

(* find_key is called with this request's token *)
ReachesFindKey(cfg, req) ==
    /\ ~check_emergency_disable(cfg)
    /\ whitelist_passed(cfg, req)
    /\ ~from_ingress(req)
    /\ Len(req.authorization) = 2
    /\ Get(cfg, "auth_mode", "api_key") \in {"api_key", "both"}
    /\ hash_key(req.authorization[2]) \in DOMAIN keys_db

protected_operation(req, upstream) ==
    /\ ReachesFindKey(config, req) =>
           keys_db[hash_key(req.authorization[2])]["usage_count"] < MaxUsage
    /\ LET r == security_middleware(keys_db, rate_limit_store, config, req, upstream, now)
       IN  /\ keys_db' = r.db
           /\ disk' = IF r.saved THEN save_keys_db(r.db, disk, fs_writable) ELSE disk
           /\ rate_limit_store' = r.store
           /\ last' = [op |-> "request", req |-> req, resp |-> r.resp, error |-> r.error,
                       executed |-> r.executed, new_key |-> "",
                       authenticated |-> r.authenticated, audit |-> r.audit,
                       events |-> r.events, body |-> NoneVal, upstream |-> upstream,
                       key_name |-> r.key_name, trace |-> r.trace,
                       strategies |-> r.strategies]
    /\ UNCHANGED <<hass, threads, auto_rotations, config, fs_writable, addon_options, restart_threads, now>>

----------------------------------------------------------------------------
(* Process start (the __main__ block) and the clock *)

Started(cfg, options, stored, writable) ==
    LET migrated == migrate_legacy_keys(stored, options)
        cleaned == cleanup_expired_keys(migrated.db, now)
    IN  /\ config' = Put(cfg, "api_keys", options)
        /\ keys_db' = cleaned.db
        /\ disk' = IF migrated.saved \/ cleaned.saved
                   THEN save_keys_db(cleaned.db, stored, writable) ELSE stored
        /\ rate_limit_store' = [c \in {} |-> <<>>]
        /\ restart_threads' = 0
        /\ auto_rotations' = {}
        /\ threads' = [w \in Workers |-> Idle]
        /\ last' = Outcome("startup", NoneVal, 0, NoMessage, TRUE, "")

startup ==
    /\ Started(config, addon_options, disk, fs_writable)
    /\ UNCHANGED <<hass, threads, fs_writable, addon_options, now>>

(* The environment of save_keys_db: the file system starts or stops accepting
   the write of /data/keys.json (open or json.dump raising) *)
filesystem(writable) ==
    /\ fs_writable # writable
    /\ fs_writable' = writable
    /\ last' = Outcome("filesystem", NoneVal, 0, NoMessage, FALSE, "")
    /\ UNCHANGED <<hass, threads, auto_rotations, config, keys_db, disk, rate_limit_store,
                   addon_options, restart_threads, now>>

(* load_keys_db: the table of the file, or an empty table when the file
   cannot be read or parsed *)
load_keys_db(stored, readable) == IF readable THEN stored ELSE EmptyDb

(* A process start at which reading /data/keys.json raises: the start goes on
   with the empty table, and the first save replaces the file *)
startup_unreadable ==
    LET loaded == load_keys_db(disk, FALSE)
        migrated == migrate_legacy_keys(loaded, addon_options)
        cleaned == cleanup_expired_keys(migrated.db, now)
    IN  /\ config' = Put(config, "api_keys", addon_options)
        /\ keys_db' = cleaned.db
        /\ disk' = IF migrated.saved \/ cleaned.saved
                   THEN save_keys_db(cleaned.db, disk, fs_writable) ELSE disk
        /\ rate_limit_store' = [c \in {} |-> <<>>]
        /\ restart_threads' = 0
        /\ auto_rotations' = {}
        /\ threads' = [w \in Workers |-> Idle]
        /\ last' = Outcome("startup-unreadable", NoneVal, 0, NoMessage, TRUE, "")
        /\ UNCHANGED <<hass, fs_writable, addon_options, now>>

tick ==
    /\ now < MaxTime
    /\ now' = now + 1
    /\ last' = Outcome("tick", NoneVal, 0, NoMessage, FALSE, "")
    /\ UNCHANGED <<hass, threads, auto_rotations, config, keys_db, disk, fs_writable, rate_limit_store, addon_options,
                   restart_threads>>

----------------------------------------------------------------------------
(* Specifications.  Every specification starts from a process start with an
   empty key database and runs the same handlers; they differ in the
   configurations loaded and in the inputs the environment sends. *)

Configs ==
    [enable_emergency_disable : BOOLEAN,
     ip_whitelist : {{}, {"10.0.0.1"}},
     auth_mode : {"api_key", "homeassistant", "both"},
     master_key : {"", MasterKey},
     rate_limit_per_minute : {1},
     rate_limit_per_hour : {1},
     api_keys : {<<>>, <<"k1">>}]

InitWith(configs) ==
    /\ config \in configs
    /\ addon_options = config.api_keys
    /\ fs_writable = TRUE
    /\ now = 0
    /\ keys_db = cleanup_expired_keys(migrate_legacy_keys(EmptyDb, config.api_keys).db, 0).db
    /\ disk = keys_db
    /\ rate_limit_store = [c \in {} |-> <<>>]
    /\ restart_threads = 0
    /\ auto_rotations = {}
    /\ threads = [w \in Workers |-> Idle]
    /\ hass = NotSetUp
    /\ last = Outcome("startup", NoneVal, 0, NoMessage, TRUE, "")

(* The outcome of the upstream token validation is drawn only when the call
   is made. *)
ValidateCalled(cfg, req) ==
    /\ ~check_emergency_disable(cfg)
    /\ whitelist_passed(cfg, req)
    /\ ~from_ingress(req)
    /\ Len(req.authorization) = 2
    /\ \/ Get(cfg, "auth_mode", "api_key") = "homeassistant"
       \/ /\ Get(cfg, "auth_mode", "api_key") = "both"
          /\ hash_key(req.authorization[2]) \notin DOMAIN keys_db

UpstreamFor(req) ==
    IF ValidateCalled(config, req) THEN UpstreamResponses ELSE {NoResponse}

(* Spec: the key lifecycle.  One client address without an allow-list, the
   local-key modes, process restarts, and the management endpoints that add,
   deprecate and revoke keys, called with the right master key. *)
LifecycleConfigs ==
    {c \in Configs :
        /\ ~c.enable_emergency_disable
        /\ c.ip_whitelist = {}
        /\ c.auth_mode \in {"api_key", "both"}
        /\ c.master_key = MasterKey
        /\ c.api_keys = <<"k1">>}

LifecycleRequests ==
    {r \in Requests :
        /\ r.ip = "10.0.0.1"
        /\ ~r.ingress
        /\ r.authorization \in {<<BearerScheme, s>> : s \in Secrets}}

KnownHashes == {hash_key(s) : s \in Secrets}

Init == InitWith(LifecycleConfigs)

Next ==
    \/ tick
    \/ startup
    \/ \E req \in LifecycleRequests : \E upstream \in UpstreamFor(req) :
          protected_operation(req, upstream)
    \/ \E name \in KeyNames : generate_key(MasterKey, name)
    \/ \E old \in KnownHashes, g \in GraceHours : rotate_key(MasterKey, old, g)
    \/ \E k \in KnownHashes : revoke_key_endpoint(MasterKey, k)

Spec == Init /\ [][Next]_vars

(* SpecGate: the admission pipeline at one clock instant.  Every combination
   of kill-switch, allow-list and authentication mode; requests from a listed
   and an unlisted address, with and without the ingress marker, with no
   bearer, a known and an unknown one; and the management calls that move a
   key through its statuses. *)
GateConfigs ==
    {c \in Configs : c.master_key = MasterKey /\ c.api_keys = <<"k1">>}

GateRequests ==
    {r \in Requests :
        \/ /\ r.ip = "10.0.0.1"
           /\ ~r.ingress
           /\ r.authorization \in {<<>>} \cup {<<BearerScheme, s>> : s \in Secrets}
        \/ /\ r.ip = "203.0.113.9"
           /\ ~r.ingress
           /\ r.authorization = <<BearerScheme, "k1">>
        \/ /\ r.ip = "203.0.113.9"
           /\ r.ingress
           /\ r.authorization \in {<<>>, <<BearerScheme, "k1">>}}

InitGate == InitWith(GateConfigs)

NextGate ==
    \/ \E req \in GateRequests : \E upstream \in UpstreamFor(req) :
          protected_operation(req, upstream)
    \/ \E old \in KnownHashes, g \in GraceHours : rotate_key(MasterKey, old, g)
    \/ \E k \in KnownHashes : revoke_key_endpoint(MasterKey, k)

SpecGate == InitGate /\ [][NextGate]_vars

(* SpecRate: the rate limiter over time.  No kill-switch and no allow-list,
   mode api_key, several per-minute and per-hour limits; requests of one
   address under the ingress identity and under two keys generated with one
   name, and the clock. *)
PerMinuteLimits == {1, 2}

PerHourLimits == {2, 3}

RateConfigs ==
    [enable_emergency_disable : {FALSE},
     ip_whitelist : {{}},
     auth_mode : {"api_key"},
     master_key : {MasterKey},
     rate_limit_per_minute : PerMinuteLimits,
     rate_limit_per_hour : PerHourLimits,
     api_keys : {<<>>}]

RateRequests ==
    {r \in Requests :
        /\ r.ip = "10.0.0.1"
        /\ \/ r.ingress /\ r.authorization = <<>>
           \/ ~r.ingress /\ r.authorization \in {<<BearerScheme, s>> : s \in Secrets}}

InitRate == InitWith(RateConfigs)

NextRate ==
    \/ tick
    \/ \E req \in RateRequests : \E upstream \in UpstreamFor(req) :
          protected_operation(req, upstream)
    \/ \E name \in KeyNames : generate_key(MasterKey, name)

SpecRate == InitRate /\ [][NextRate]_vars

(* SpecRotate: the management endpoints that reference a key hash, with
   auto-rotate requests overlapping each other, the Supervisor calls
   succeeding and failing, and the restarts they schedule. *)
RotateConfigs ==
    {c \in Configs :
        /\ ~c.enable_emergency_disable
        /\ c.ip_whitelist = {}
        /\ c.auth_mode = "api_key"
        /\ c.master_key = MasterKey
        /\ c.api_keys = <<"k1">>}

InitRotate == InitWith(RotateConfigs)

NextRotate ==
    \/ \E x \in MasterKeyHeaders, old \in HashInputs, g \in GraceHours,
          read \in ExternalOutcomes : auto_rotate_key(x, old, g, read)
    \/ \E p \in auto_rotations, write \in ExternalOutcomes : auto_rotate_key_write(p, write)
    \/ \E outcome \in ExternalOutcomes : restart_addon(outcome)
    \/ startup
    \/ \E old \in HashInputs, g \in GraceHours : rotate_key(MasterKey, old, g)
    \/ \E k \in HashInputs : revoke_key_endpoint(MasterKey, k)

SpecRotate == InitRotate /\ [][NextRotate]_vars

(* SpecRotateFair: SpecRotate with the scheduler running every started restart
   thread: the thread sleeps 2 s and makes its call, so the call cannot stay
   possible for ever without being made. *)
SpecRotateFair ==
    /\ InitRotate
    /\ [][NextRotate]_vars
    /\ WF_vars(\E outcome \in ExternalOutcomes : restart_addon(outcome))

(* SpecManage: every endpoint outside the admission pipeline, with and without
   a configured master key, with a right and a wrong X-Master-Key header, with
   the kill-switch on and off, at one clock instant. *)
ManageConfigs ==
    {c \in Configs :
        /\ c.ip_whitelist = {}
        /\ c.auth_mode = "api_key"
        /\ c.api_keys = <<"k1">>}

ManageRequests ==
    {r \in Requests :
        r.ip = "10.0.0.1" /\ ~r.ingress /\ r.authorization = <<BearerScheme, "k1">>}

InitManage == InitWith(ManageConfigs)

NextManage ==
    \/ \E x \in MasterKeyHeaders, name \in KeyNames : generate_key(x, name)
    \/ \E x \in MasterKeyHeaders, old \in HashInputs, g \in GraceHours :
          rotate_key(x, old, g)
    \/ \E x \in MasterKeyHeaders, old \in HashInputs, g \in GraceHours :
          auto_rotate_key(x, old, g, "ok")
    \/ \E p \in auto_rotations : auto_rotate_key_write(p, "ok")
    \/ \E outcome \in ExternalOutcomes : restart_addon(outcome)
    \/ \E x \in MasterKeyHeaders, k \in HashInputs : revoke_key_endpoint(x, k)
    \/ \E x \in MasterKeyHeaders : list_keys(x)
    \/ health_check
    \/ catch_all
    \/ \E req \in ManageRequests : \E upstream \in UpstreamFor(req) :
          protected_operation(req, upstream)

SpecManage == InitManage /\ [][NextManage]_vars

(* SpecGrace: the reads and the rotations of a record while the clock runs
   past its grace period, with no restart in between (the sweep runs only at
   start). *)
InitGrace == InitWith(RotateConfigs)

NextGrace ==
    \/ tick
    \/ \E old \in KnownHashes, g \in GraceHours : rotate_key(MasterKey, old, g)
    \/ list_keys(MasterKey)
    \/ health_check
    \/ \E req \in ManageRequests : \E upstream \in UpstreamFor(req) :
          protected_operation(req, upstream)

SpecGrace == InitGrace /\ [][NextGrace]_vars

(* SpecThreads: up to MaxConcurrent request threads, each in one call of the
   KeyStore or of the RateLimiter, interleaved at every read and write of the
   shared table, file and window map, at one clock instant. *)
ThreadConfigs ==
    [enable_emergency_disable : {FALSE},
     ip_whitelist : {{}},
     auth_mode : {"api_key"},
     master_key : {MasterKey},
     rate_limit_per_minute : PerMinuteLimits,
     rate_limit_per_hour : PerHourLimits,
     api_keys : {<<"k1">>}]

InitThreads == InitWith(ThreadConfigs)

NextThreads ==
    \E w \in Workers :
        \/ \E provided_key \in Secrets : find_key_read(w, provided_key)
        \/ find_key_store(w)
        \/ \E key_hash \in KnownHashes : revoke_key_store(w, key_hash)
        \/ \E key \in Secrets, name \in KeyNames : add_key_store(w, key, name)
        \/ save_keys_db_dump(w)
        \/ save_keys_db_close(w)
        \/ \E client_id \in ClientIds : check_rate_limit_prune(w, client_id)
        \/ check_rate_limit_assign(w)
        \/ check_rate_limit_count(w)
        \/ check_rate_limit_append(w)

SpecThreads == InitThreads /\ [][NextThreads]_vars

(* SpecWrite: the KeyStore operations, through the handlers that call them,
   while writes of the key database succeed and fail. *)
InitWrite == InitWith(RotateConfigs)

NextWrite ==
    \/ \E writable \in BOOLEAN : filesystem(writable)
    \/ \E name \in KeyNames : generate_key(MasterKey, name)
    \/ \E old \in KnownHashes, g \in GraceHours : rotate_key(MasterKey, old, g)
    \/ \E k \in KnownHashes : revoke_key_endpoint(MasterKey, k)
    \/ \E req \in ManageRequests : \E upstream \in UpstreamFor(req) :
          protected_operation(req, upstream)

SpecWrite == InitWrite /\ [][NextWrite]_vars

(* SpecComponent: Home Assistant starting the custom component with every
   section of ComponentConfs, and requests to its three add-on views. *)
InitComponent == InitWith(RotateConfigs)

NextComponent ==
    \/ \E conf \in ComponentConfs, extra_allowed \in BOOLEAN :
          home_assistant_start(conf, extra_allowed)
    \/ \E view \in AddonViews, request \in ComponentRequests,
          action \in {"restart", "delete"}, supervisor \in {"ok", "exception"} :
          /\ view # "action" => action = "restart"
          /\ addon_view(view, request, action, supervisor)

SpecComponent == InitComponent /\ [][NextComponent]_vars

(* SpecRestart: process starts, with the key database readable and not,
   between the operations that deprecate and revoke keys, auto-rotation
   included, which leaves the old secret in the configuration. *)
InitRestart == InitWith(RotateConfigs)

NextRestart ==
    \/ startup
    \/ startup_unreadable
    \/ tick
    \/ \E old \in KnownHashes, g \in GraceHours : rotate_key(MasterKey, old, g)
    \/ \E old \in KnownHashes, g \in GraceHours : auto_rotate_key(MasterKey, old, g, "ok")
    \/ \E p \in auto_rotations : auto_rotate_key_write(p, "ok")
    \/ \E k \in KnownHashes : revoke_key_endpoint(MasterKey, k)

SpecRestart == InitRestart /\ [][NextRestart]_vars

----------------------------------------------------------------------------
(* Properties *)

StrategiesTried(op) == {op.strategies[i] : i \in DOMAIN op.strategies}

BearerHash(req) == hash_key(req.authorization[2])

(* This step is a protected request that reached the local-key strategy and
   whose bearer hashes to record h of the table *)
LocalKeyHit(h) ==
    /\ last'.op = "request"
    /\ "api_key" \in StrategiesTried(last')
    /\ h = BearerHash(last'.req)
    /\ h \in DOMAIN keys_db

Lifecycle(rec) ==
    [status |-> rec["status"],
     revoked_at |-> Get(rec, "revoked_at", NoneVal),
     deprecated_at |-> Get(rec, "deprecated_at", NoneVal),
     grace_until |-> Get(rec, "grace_until", NoneVal)]

(* C1: once a record is revoked it is revoked after every later operation.
   Checked under Spec. *)
RevokedIsTerminal ==
    [][\A h \in DOMAIN keys_db :
          keys_db[h]["status"] = "revoked" =>
              h \in DOMAIN keys_db' /\ keys_db'[h]["status"] = "revoked"]_vars

(* C2: a management call that invokes revoke_key (revoke-key) or deprecate_key
   (rotate-key) on a hash whose record is already revoked leaves that record's
   status, revoked_at, deprecated_at and grace_until as they were. *)
RevokedRecordUntouched ==
    [][\A h \in DOMAIN keys_db :
          (/\ last'.op \in {"revoke-key", "rotate-key"}
           /\ last'.executed
           /\ last'.req.key_hash = h
           /\ keys_db[h]["status"] = "revoked")
          => Lifecycle(keys_db'[h]) = Lifecycle(keys_db[h])]_vars

(* C3: a request that reaches the local-key strategy with a bearer matching a
   revoked record fails authentication, is answered 401, and the wrapped
   operation does not run. *)
RevokedKeyRejected ==
    [][\A h \in DOMAIN keys_db :
          (LocalKeyHit(h) /\ keys_db[h]["status"] = "revoked")
          => (/\ ~last'.authenticated
              /\ last'.resp = 401
              /\ ~last'.executed)]_vars

RevokedKeyRejectedWitness ==
    /\ last.op = "request"
    /\ "api_key" \in StrategiesTried(last)
    /\ last.error = "API key has been revoked"
    /\ last.resp = 401
    /\ keys_db[BearerHash(last.req)]["status"] = "revoked"

(* C4: in every state a record carries grace_until iff its status is
   deprecated. *)
GraceUntilIffDeprecated ==
    \A h \in DOMAIN keys_db :
        Has(keys_db[h], "grace_until") <=> keys_db[h]["status"] = "deprecated"

(* C5: in every state a record carries revoked_at iff its status is revoked. *)
RevokedAtIffRevoked ==
    \A h \in DOMAIN keys_db :
        Has(keys_db[h], "revoked_at") <=> keys_db[h]["status"] = "revoked"

(* C6: a request that reaches the local-key strategy with a bearer matching a
   deprecated record whose grace_until lies in the past is answered 401, the
   wrapped operation does not run, and the record is revoked (revoked_at is
   the time of the request) when the response is returned: no sweep is needed. *)
ExpiredGraceRevokedAtUse ==
    [][\A h \in DOMAIN keys_db :
          (/\ LocalKeyHit(h)
           /\ keys_db[h]["status"] = "deprecated"
           /\ fromisoformat(keys_db[h]["grace_until"]) < now)
          => (/\ last'.resp = 401
              /\ ~last'.executed
              /\ keys_db'[h]["status"] = "revoked"
              /\ keys_db'[h]["revoked_at"] = isoformat(now))]_vars

ExpiredGraceRevokedAtUseWitness ==
    /\ last.op = "request"
    /\ last.resp = 401
    /\ last.error = "API key has expired (past grace period)"
    /\ keys_db[BearerHash(last.req)]["status"] = "revoked"
    /\ keys_db[BearerHash(last.req)]["revoked_at"] = isoformat(now)
    /\ fromisoformat(keys_db[BearerHash(last.req)]["grace_until"]) < now

(* C7: a request that reaches the local-key strategy with a bearer matching a
   deprecated record whose grace_until has not passed is authenticated under
   that record's name, and the record stays deprecated. *)
DeprecatedKeyAuthenticatesInGrace ==
    [][\A h \in DOMAIN keys_db :
          (/\ LocalKeyHit(h)
           /\ keys_db[h]["status"] = "deprecated"
           /\ now <= fromisoformat(keys_db[h]["grace_until"]))
          => (/\ last'.authenticated
              /\ last'.resp \in {200, 429}
              /\ last'.key_name = keys_db[h]["name"]
              /\ keys_db'[h]["status"] = "deprecated"
              /\ keys_db'[h]["grace_until"] = keys_db[h]["grace_until"])]_vars

DeprecatedKeyAuthenticatesInGraceWitness ==
    /\ last.op = "request"
    /\ last.authenticated
    /\ last.resp = 200
    /\ last.executed
    /\ "api_key" \in StrategiesTried(last)
    /\ BearerHash(last.req) \in DOMAIN keys_db
    /\ keys_db[BearerHash(last.req)]["status"] = "deprecated"
    /\ keys_db[BearerHash(last.req)]["name"] = last.key_name
    /\ now < fromisoformat(keys_db[BearerHash(last.req)]["grace_until"])

(* C8: once a key is deprecated with a 0-hour grace (grace_until equals
   deprecated_at), an authentication with its secret, also one at the clock
   instant of the deprecation, is answered 401 and leaves the record revoked. *)
ZeroGraceKeyRejected ==
    [][\A h \in DOMAIN keys_db :
          (/\ LocalKeyHit(h)
           /\ keys_db[h]["status"] = "deprecated"
           /\ keys_db[h]["grace_until"] = keys_db[h]["deprecated_at"])
          => (/\ last'.resp = 401
              /\ keys_db'[h]["status"] = "revoked")]_vars

(* C9: while emergency-disable is set every protected request is answered 503
   with the kill-switch reason, the wrapped operation does not run, no later
   stage is evaluated, and the key table and the rate windows are unchanged.
   Checked under SpecGate. *)
KillSwitchDominates ==
    [][(last'.op = "request" /\ config.enable_emergency_disable)
       => (/\ last'.resp = 503
           /\ last'.error = "Service temporarily disabled"
           /\ ~last'.executed
           /\ last'.trace = <<"emergency">>
           /\ last'.strategies = <<>>
           /\ keys_db' = keys_db
           /\ rate_limit_store' = rate_limit_store)]_vars

KillSwitchDominatesWitness ==
    /\ config.enable_emergency_disable
    /\ config.ip_whitelist # {}
    /\ last.op = "request"
    /\ last.resp = 503
    /\ last.req.ip \in config.ip_whitelist
    /\ Len(last.req.authorization) = 2
    /\ BearerHash(last.req) \in DOMAIN keys_db
    /\ keys_db[BearerHash(last.req)]["status"] = "active"

(* C10: a request carrying the ingress marker is never answered 403 by the
   allow-list: with the kill-switch off it reaches authentication whatever its
   address, and with the kill-switch on it is answered 503.
   Checked under SpecGate. *)
IngressBypassesAllowListOnly ==
    [][(last'.op = "request" /\ last'.req.ingress)
       => (/\ last'.resp # 403
           /\ config.enable_emergency_disable => last'.resp = 503
           /\ ~config.enable_emergency_disable =>
                  (/\ last'.trace = <<"emergency", "whitelist", "auth", "rate">>
                   /\ last'.authenticated))]_vars

IngressBypassesAllowListOnlyWitness ==
    /\ last.op = "request"
    /\ last.req.ingress
    /\ config.ip_whitelist # {}
    /\ last.req.ip \notin config.ip_whitelist
    /\ last.authenticated
    /\ last.resp = 200
    /\ last.executed

(* C11: the response of a protected request is the rejection of the first
   failing stage in the order kill-switch (503), allow-list (403: the list is
   non-empty and the non-ingress address is not in it), authentication (401),
   rate limit (429); later stages are not evaluated, and the wrapped operation
   runs iff every stage passes.  Checked under SpecGate. *)
AllowListFails(req) ==
    /\ config.ip_whitelist # {}
    /\ ~req.ingress
    /\ req.ip \notin config.ip_whitelist

FirstFailingStage(req, upstream) ==
    LET a == authenticate_request(keys_db, config, req, upstream, now)
        client_id == req.ip \o ":" \o Get(a.key_data, "name", "unknown")
    IN  IF config.enable_emergency_disable
        THEN [resp |-> 503, trace |-> <<"emergency">>]
        ELSE IF AllowListFails(req)
        THEN [resp |-> 403, trace |-> <<"emergency", "whitelist">>]
        ELSE IF ~a.authenticated
        THEN [resp |-> 401, trace |-> <<"emergency", "whitelist", "auth">>]
        ELSE IF ~check_rate_limit(rate_limit_store, client_id, config, now).allowed
        THEN [resp |-> 429, trace |-> <<"emergency", "whitelist", "auth", "rate">>]
        ELSE [resp |-> 200, trace |-> <<"emergency", "whitelist", "auth", "rate">>]

PipelineIsFixedOrder ==
    [][last'.op = "request"
       => \E upstream \in UpstreamResponses \cup {NoResponse} :
              LET stage == FirstFailingStage(last'.req, upstream)
              IN  /\ last'.resp = stage.resp
                  /\ last'.trace = stage.trace
                  /\ last'.executed <=> stage.resp = 200]_vars

PipelineIsFixedOrderWitness ==
    /\ last.op = "request"
    /\ last.resp = 429
    /\ ~last.executed
    /\ config.ip_whitelist # {}
    /\ ~last.req.ingress
    /\ last.req.ip \in config.ip_whitelist
    /\ last.authenticated

(* The window a request of record h from address ip is charged to *)
WindowOf(store, ip, h) == Get(store, ip \o ":" \o keys_db[h]["name"], <<>>)

(* C12: two different key records used from one address have independent
   rate budgets: a request authenticated with one record leaves the window of
   every other record of that address as it was.  Checked under SpecRate. *)
DistinctKeysIndependentBudgets ==
    [][\A h, other \in DOMAIN keys_db :
          (LocalKeyHit(h) /\ last'.authenticated /\ other # h)
          => WindowOf(rate_limit_store', last'.req.ip, other)
                 = WindowOf(rate_limit_store, last'.req.ip, other)]_vars

(* The identity a rate-checked request was charged to, and its window *)
ChargedIdentity(op) == op.req.ip \o ":" \o op.key_name

RateChecked(op) ==
    /\ op.op = "request"
    /\ Len(op.trace) = 4
    /\ op.trace[4] = "rate"

EntriesWithin(window, from, to) ==
    Len(SelectSeq(window, LAMBDA ts : from <= ts /\ ts < to))

(* C13: with per-minute limit N, a check of an identity that already has N
   admitted checks less than a minute old is denied (429) and records
   nothing; hence no window ever holds more than N entries within any span of
   one minute.  Checked under SpecRate. *)
PerMinuteLimitEnforced ==
    [][/\ RateChecked(last') =>
             LET window == Get(rate_limit_store, ChargedIdentity(last'), <<>>)
             IN  EntriesWithin(window, now - Minute + 1, now + 1)
                     >= config.rate_limit_per_minute
                 => /\ last'.resp = 429
                    /\ ~last'.executed
                    /\ EntriesWithin(rate_limit_store'[ChargedIdentity(last')],
                                     now, now + 1)
                           = EntriesWithin(window, now, now + 1)
       /\ \A c \in DOMAIN rate_limit_store' : \A t0 \in 0..MaxTime :
             EntriesWithin(rate_limit_store'[c], t0, t0 + Minute)
                 <= config.rate_limit_per_minute]_vars

PerMinuteLimitEnforcedWitness ==
    /\ RateChecked(last)
    /\ last.resp = 429
    /\ last.error = "Rate limit exceeded: per minute"
    /\ config.rate_limit_per_minute = 2
    /\ EntriesWithin(rate_limit_store[ChargedIdentity(last)], now, now + 1) = 2

(* C14: admitted requests that are a minute old or older no longer count
   against the per-minute limit but count against the per-hour limit until
   they are an hour old: a check of an identity whose entries are all at least
   a minute old is never denied on per-minute grounds, and it is denied on
   per-hour grounds exactly when the entries less than an hour old have reached
   the per-hour limit.  Checked under SpecRate. *)
MinuteRollsHourPersists ==
    [][RateChecked(last') =>
          LET window == Get(rate_limit_store, ChargedIdentity(last'), <<>>)
              in_last_hour == EntriesWithin(window, now - Hour + 1, now + 1)
          IN  (\A i \in DOMAIN window : window[i] + Minute <= now)
              => /\ last'.error # "Rate limit exceeded: per minute"
                 /\ in_last_hour >= config.rate_limit_per_hour
                        => /\ last'.resp = 429
                           /\ last'.error = "Rate limit exceeded: per hour"
                 /\ in_last_hour < config.rate_limit_per_hour
                        => /\ last'.resp = 200
                           /\ last'.executed]_vars

MinuteRollsHourPersistsWitness ==
    /\ RateChecked(last)
    /\ last.resp = 429
    /\ last.error = "Rate limit exceeded: per hour"
    /\ rate_limit_store[ChargedIdentity(last)] # <<>>
    /\ \A i \in DOMAIN rate_limit_store[ChargedIdentity(last)] :
          rate_limit_store[ChargedIdentity(last)][i] + Minute <= now

(* C15: no window holds more entries than the per-hour limit, and right after
   a check of an identity its window holds no timestamp an hour old or older.
   Checked under SpecRate. *)
WindowsAreBounded ==
    /\ \A c \in DOMAIN rate_limit_store :
          Len(rate_limit_store[c]) <= config.rate_limit_per_hour
    /\ RateChecked(last) =>
          \A i \in DOMAIN rate_limit_store[ChargedIdentity(last)] :
              rate_limit_store[ChargedIdentity(last)][i] > now - Hour

WindowsAreBoundedWitness ==
    /\ RateChecked(last)
    /\ last.resp = 200
    /\ now >= Hour
    /\ Len(rate_limit_store[ChargedIdentity(last)]) = config.rate_limit_per_hour
    /\ \E c \in DOMAIN rate_limit_store :
          /\ c # ChargedIdentity(last)
          /\ \E i \in DOMAIN rate_limit_store[c] : rate_limit_store[c][i] <= now - Hour

Range(seq) == {seq[i] : i \in DOMAIN seq}

(* This step answers an auto-rotate request whose read or write of the
   external configuration failed *)
ExternalCallFailed(op) ==
    /\ op.op = "auto-rotate"
    /\ op.req.x_master_key = config.master_key
    /\ op.req.key_hash \in DOMAIN keys_db
    /\ \/ op.req.read \in {"not_ok", "exception"}
       \/ op.req.write \in {"not_ok", "exception"}

(* C16: an auto-rotation whose read or write of the external configuration
   fails (non-OK reply or exception) is answered with an error and leaves the
   key table in memory and on disk as it was, with no restart scheduled.
   Checked under SpecRotate. *)
FailedAutoRotationChangesNothing ==
    [][ExternalCallFailed(last')
       => /\ last'.resp = 500
          /\ ~last'.executed
          /\ keys_db' = keys_db
          /\ disk' = disk
          /\ restart_threads' = restart_threads]_vars

FailedAutoRotationChangesNothingWitness ==
    /\ last.op = "auto-rotate"
    /\ last.req.read = "ok"
    /\ last.req.write = "not_ok"
    /\ last.resp = 500
    /\ last.req.key_hash \in DOMAIN keys_db
    /\ keys_db[last.req.key_hash]["status"] = "active"
    /\ restart_threads = 0

(* C17: a successful auto-rotation leaves a new active record for the
   generated secret and the old record deprecated (grace > 0) or revoked
   (grace = 0); the key table changes in no auto-rotate step other than the
   one whose write of the external configuration succeeded, which has put the
   new secret into that configuration.  Checked under SpecRotate. *)
AutoRotationOrdersLocalAfterExternal ==
    [][last'.op \in {"auto-rotate", "auto-rotate-read"}
       => /\ last'.resp = 200
             => LET new_hash == hash_key(last'.new_key)
                    old_hash == last'.req.key_hash
                IN  /\ new_hash \notin DOMAIN keys_db
                    /\ new_hash \in DOMAIN keys_db'
                    /\ keys_db'[new_hash]["status"] = "active"
                    /\ keys_db'[old_hash]["status"]
                           = IF last'.req.grace_hours > 0 THEN "deprecated"
                                                         ELSE "revoked"
                    /\ restart_threads' = restart_threads + 1
          /\ keys_db' # keys_db
             => /\ last'.resp = 200
                /\ last'.req.write = "ok"
                /\ last'.new_key \in Range(addon_options')]_vars

AutoRotationOrdersLocalAfterExternalWitness ==
    /\ last.op = "auto-rotate"
    /\ last.resp = 200
    /\ last.req.grace_hours = 0
    /\ keys_db[last.req.key_hash]["status"] = "revoked"
    /\ keys_db[hash_key(last.new_key)]["status"] = "active"
    /\ last.new_key \in Range(addon_options)
    /\ \E h \in DOMAIN keys_db : keys_db[h]["status"] = "deprecated"

(* The names auto_rotate_key gives the records it creates *)
AutoRotatedNames ==
    {keys_db[h]["name"] \o " (auto-rotated)" : h \in DOMAIN keys_db}

(* C18: in every state the secret of every record created by auto-rotation is
   in the key list of the external configuration, also when auto-rotate
   requests overlap.  Checked under SpecRotate. *)
AutoRotatedKeysAreInExternalConfig ==
    \A s \in RotationSecrets :
        (/\ hash_key(s) \in DOMAIN keys_db
         /\ keys_db[hash_key(s)]["name"] \in AutoRotatedNames)
        => s \in Range(addon_options)

(* A management call with the right master key that names a hash no record has *)
UnknownHashReferenced(op) ==
    /\ op.op \in {"rotate-key", "auto-rotate", "auto-rotate-read", "revoke-key"}
    /\ op.req.x_master_key = config.master_key
    /\ op.req.key_hash # ""
    /\ op.req.key_hash \notin DOMAIN keys_db

(* C20: rotate-key, auto-rotate and revoke-key called with an unknown key hash
   answer 404 "Key not found" and leave the key table, the external
   configuration and the restart schedule unchanged; auto-rotate answers so
   whatever the external calls would return and starts none.
   Checked under SpecRotate. *)
UnknownHashIsNotFound ==
    [][UnknownHashReferenced(last')
       => /\ last'.resp = 404
          /\ last'.error = "Key not found"
          /\ ~last'.executed
          /\ keys_db' = keys_db
          /\ disk' = disk
          /\ addon_options' = addon_options
          /\ restart_threads' = restart_threads
          /\ auto_rotations' = auto_rotations]_vars

UnknownHashIsNotFoundWitness ==
    /\ last.op = "auto-rotate"
    /\ last.resp = 404
    /\ last.req.read = "exception"
    /\ last.req.key_hash # ""
    /\ last.req.key_hash \notin DOMAIN keys_db
    /\ keys_db # EmptyDb

(* C19: a manual rotation of an existing hash with grace g leaves the old
   record deprecated with grace_until = now + g hours, adds exactly one
   record, active, never used, named after the old record with the suffix
   " (rotated)", and changes no other record.  Checked under Spec. *)
ManualRotationEffect ==
    [][(last'.op = "rotate-key" /\ last'.resp = 200)
       => LET old_hash == last'.req.key_hash
              new_hash == hash_key(last'.new_key)
          IN  /\ old_hash \in DOMAIN keys_db
              /\ keys_db'[old_hash]["status"] = "deprecated"
              /\ keys_db'[old_hash]["grace_until"]
                     = isoformat(now + last'.req.grace_hours * Hour)
              /\ DOMAIN keys_db' = DOMAIN keys_db \cup {new_hash}
              /\ new_hash \notin DOMAIN keys_db
              /\ keys_db'[new_hash]["status"] = "active"
              /\ keys_db'[new_hash]["usage_count"] = 0
              /\ keys_db'[new_hash]["name"] = keys_db[old_hash]["name"] \o " (rotated)"
              /\ \A h \in DOMAIN keys_db \ {old_hash} : keys_db'[h] = keys_db[h]]_vars

ManualRotationEffectWitness ==
    /\ last.op = "rotate-key"
    /\ last.resp = 200
    /\ last.req.grace_hours = 1
    /\ now > 0
    /\ keys_db[last.req.key_hash]["status"] = "deprecated"
    /\ keys_db[last.req.key_hash]["grace_until"] = isoformat(now + Hour)
    /\ keys_db[hash_key(last.new_key)]["status"] = "active"
    /\ Cardinality(DOMAIN keys_db) = 2

AuditRecords(op) == SelectSeq(op.events, LAMBDA e : e.event = "audit")

CategoryOf(resp) ==
    CASE resp \in {503, 403} -> "blocked"
      [] resp = 401 -> "auth_failed"
      [] resp = 429 -> "rate_limited"
      [] resp = 200 -> "success"

(* C28: every request that enters the admission pipeline writes exactly one
   audit record, of the category of its decision (blocked for 503 and 403,
   auth_failed for 401, rate_limited for 429, success when admitted), before
   the response is returned or the wrapped operation is called.
   Checked under SpecGate. *)
OneAuditRecordPerDecision ==
    [][last'.op = "request"
       => /\ Len(AuditRecords(last')) = 1
          /\ Len(last'.events) = 2
          /\ last'.events[1].event = "audit"
          /\ last'.events[1].status = CategoryOf(last'.resp)
          /\ last'.events[2].event = IF last'.resp = 200 THEN "call" ELSE "respond"
          /\ last'.executed <=> last'.events[2].event = "call"]_vars

OneAuditRecordPerDecisionWitness ==
    /\ last.op = "request"
    /\ last.resp = 403
    /\ AuditRecords(last) = <<[event |-> "audit", status |-> "blocked", key_name |-> "unknown"]>>
    /\ last.events[2].event = "respond"

ManagementOps ==
    {"generate-key", "rotate-key", "auto-rotate", "auto-rotate-read", "revoke-key",
     "list-keys"}

MasterKeyPresented(op) ==
    /\ config.master_key # ""
    /\ op.req.x_master_key = config.master_key

(* C21: a management operation runs only when a master key is configured and
   the X-Master-Key header equals it; otherwise the answer is 503 (none
   configured) or 403 (mismatch) and the key table, the disk, the external
   configuration, the restart schedule and the requests in flight are
   unchanged.  Checked under SpecManage. *)
ManagementNeedsMasterKey ==
    [][last'.op \in ManagementOps
       => /\ ~MasterKeyPresented(last')
             => /\ last'.resp = IF config.master_key = "" THEN 503 ELSE 403
                /\ ~last'.executed
                /\ last'.body = NoneVal
                /\ last'.new_key = ""
                /\ keys_db' = keys_db
                /\ disk' = disk
                /\ addon_options' = addon_options
                /\ restart_threads' = restart_threads
                /\ auto_rotations' = auto_rotations
          /\ MasterKeyPresented(last')
             => (last'.resp \notin {503, 403})]_vars

ManagementNeedsMasterKeyWitness ==
    /\ last.op = "generate-key"
    /\ config.master_key = ""
    /\ last.resp = 503
    /\ last.req.x_master_key = MasterKey
    /\ Cardinality(DOMAIN keys_db) = 1

(* A record deprecated with its grace period over *)
PastGrace(rec, t) ==
    /\ rec["status"] = "deprecated"
    /\ fromisoformat(rec["grace_until"]) < t

(* C27: an operation other than the sweep that observes a deprecated record
   whose grace period is over does not treat it as deprecated: a request with
   its secret is not authenticated and leaves it revoked, rotate-key does not
   deprecate it again with a new grace period, and list-keys does not report
   it as deprecated.  Checked under SpecGrace. *)
PastGraceNeverSeenDeprecated ==
    [][\A h \in DOMAIN keys_db :
          PastGrace(keys_db[h], now)
          => /\ LocalKeyHit(h)
                => ~last'.authenticated /\ keys_db'[h]["status"] = "revoked"
             /\ (last'.op = "rotate-key" /\ last'.resp = 200 /\ last'.req.key_hash = h)
                => keys_db'[h]["status"] # "deprecated"
             /\ (last'.op = "list-keys" /\ last'.resp = 200)
                => \A e \in last'.body.keys :
                       e.hash = h => e.status # "deprecated"]_vars

(* C29: every rejection the gateway answers, on protected operations, on
   management endpoints and on the default-deny route, is preceded by an audit
   record of that request.  Checked under SpecManage. *)
RejectionsAreAudited ==
    [][(last'.resp >= 400)
       => /\ Len(AuditRecords(last')) >= 1
          /\ last'.events[1].event = "audit"]_vars

EndpointOps == ManagementOps \cup {"request", "health", "catch-all"}

(* C30: while emergency-disable is set no request to any endpoint, the
   management endpoints included, is served or changes the key table.
   Checked under SpecManage. *)
KillSwitchBlocksAllTraffic ==
    [][(config.enable_emergency_disable /\ last'.op \in EndpointOps)
       => /\ last'.resp = 503
          /\ ~last'.executed
          /\ keys_db' = keys_db]_vars

(* This step is a protected request that called find_key with its bearer *)
FindKeyCalled ==
    /\ last'.op = "request"
    /\ "api_key" \in StrategiesTried(last')

(* C25: the usage_count of a record never decreases, and it changes only in a
   find_key call whose secret hashes to that record, by exactly 1 per call.
   Checked under Spec. *)
UsageCountOnlyGrowsByLookup ==
    [][\A h \in DOMAIN keys_db :
          /\ h \in DOMAIN keys_db'
          /\ keys_db'[h]["usage_count"] >= keys_db[h]["usage_count"]
          /\ keys_db'[h]["usage_count"] # keys_db[h]["usage_count"]
             => /\ LocalKeyHit(h)
                /\ keys_db'[h]["usage_count"] = keys_db[h]["usage_count"] + 1]_vars

UsageCountOnlyGrowsByLookupWitness ==
    /\ last.op = "request"
    /\ "api_key" \in StrategiesTried(last)
    /\ BearerHash(last.req) \in DOMAIN keys_db
    /\ keys_db[BearerHash(last.req)]["usage_count"] = 1
    /\ \E h \in DOMAIN keys_db : keys_db[h]["usage_count"] = 0

(* C26: a find_key call whose secret hashes to no record returns absent (the
   local-key strategy does not authenticate the request) and leaves the table
   and the persisted database unchanged; a hit sets last_used and usage_count
   of the matched record and of no other record.  Checked under Spec. *)
FindKeyMissChangesNothing ==
    [][FindKeyCalled
       => /\ BearerHash(last'.req) \notin DOMAIN keys_db
             => /\ keys_db' = keys_db
                /\ disk' = disk
                /\ Get(config, "auth_mode", "api_key") = "api_key"
                   => ~last'.authenticated /\ last'.resp = 401
          /\ \A h \in DOMAIN keys_db :
                /\ h # BearerHash(last'.req)
                   => /\ keys_db'[h]["last_used"] = keys_db[h]["last_used"]
                      /\ keys_db'[h]["usage_count"] = keys_db[h]["usage_count"]
                /\ h = BearerHash(last'.req)
                   => /\ keys_db'[h]["last_used"] = isoformat(now)
                      /\ keys_db'[h]["usage_count"] = keys_db[h]["usage_count"] + 1]_vars

FindKeyMissChangesNothingWitness ==
    /\ last.op = "request"
    /\ "api_key" \in StrategiesTried(last)
    /\ BearerHash(last.req) \notin DOMAIN keys_db
    /\ Cardinality(DOMAIN keys_db) >= 1
    /\ last.resp = 401

(* No thread is inside a KeyStore or RateLimiter call *)
Settled == \A w \in Workers : threads[w].pc \in {"idle", "returned"}

CompletedCalls(op, arg) ==
    {w \in Workers :
        /\ threads[w].pc = "returned"
        /\ threads[w].op = op
        /\ threads[w].arg = arg
        /\ threads[w].ret}

(* C22: concurrent find_key, revoke_key and add_key calls lose no update: once
   the calls have returned, the usage_count of a record has grown by the number
   of successful lookups of its key, every record a completed revoke_key named
   is revoked and every record a completed add_key made is in the table.
   Checked under SpecThreads, whose records start with usage_count 0. *)
ConcurrentLookupsAreAllCounted ==
    Settled
    => /\ \A h \in DOMAIN keys_db :
             keys_db[h]["usage_count"] = Cardinality(CompletedCalls("find_key", h))
       /\ \A h \in KnownHashes :
             /\ CompletedCalls("revoke_key", h) # {}
                => h \in DOMAIN keys_db /\ keys_db[h]["status"] = "revoked"
             /\ CompletedCalls("add_key", h) # {} => h \in DOMAIN keys_db

(* C23: whenever no KeyStore call is in progress and no write has failed, the
   persisted key database equals the table in memory, also after overlapping
   mutations of several request threads.  Checked under SpecThreads. *)
PersistedTableIsCurrent ==
    (Settled /\ fs_writable) => disk = keys_db

(* C24: with overlapping checks of one identity, the requests admitted at one
   instant are no more than the per-minute threshold, and the timestamp of
   every admitted request is in the identity's window once the checks have
   returned.  Checked under SpecThreads. *)
ConcurrentChecksKeepTheLimit ==
    Settled
    => \A c \in ClientIds :
          LET admitted == Cardinality(CompletedCalls("check_rate_limit", c))
          IN  /\ admitted <= config.rate_limit_per_minute
              /\ Len(Get(rate_limit_store, c, <<>>)) >= admitted

(* This step is a protected request that reached authenticate_request *)
AuthReached(op) ==
    /\ op.op = "request"
    /\ Len(op.trace) >= 3

(* C31: a request carrying the ingress marker is authenticated with the
   identity "Home Assistant Ingress" in every authentication mode and with
   any or no Authorization header, and no further strategy runs: the key table
   and the persisted table are unchanged and the upstream service is not
   called.  Checked under SpecGate. *)
IngressIsAuthenticatedAlone ==
    [][(AuthReached(last') /\ from_ingress(last'.req))
       => /\ last'.authenticated
          /\ last'.key_name = "Home Assistant Ingress"
          /\ last'.strategies = <<"ingress">>
          /\ last'.upstream = NoResponse
          /\ keys_db' = keys_db
          /\ disk' = disk]_vars

IngressIsAuthenticatedAloneWitness ==
    /\ last.op = "request"
    /\ last.req.ingress
    /\ Len(last.req.authorization) = 2
    /\ BearerHash(last.req) \in DOMAIN keys_db
    /\ keys_db[BearerHash(last.req)]["status"] = "revoked"
    /\ config.auth_mode = "both"
    /\ last.authenticated
    /\ last.key_name = "Home Assistant Ingress"

(* C32: for a request without the ingress marker the strategies run in the
   order local key, upstream token, and stop at the first applicable one: in
   api_key mode the upstream service is not called; in homeassistant mode the
   key table is not consulted or changed; in both mode the upstream service is
   called exactly when the bearer is not in the key table; and when it is
   called the request is authenticated exactly when the reply is a 200 with
   the message "API running.".  Checked under SpecGate. *)
StrategiesInStrictOrder ==
    [][(AuthReached(last') /\ ~from_ingress(last'.req) /\ Len(last'.req.authorization) = 2)
       => LET mode == Get(config, "auth_mode", "api_key")
              called == last'.upstream # NoResponse
              hit == BearerHash(last'.req) \in DOMAIN keys_db
          IN  /\ called <=> "homeassistant" \in StrategiesTried(last')
              /\ mode = "api_key" => ~called
              /\ mode = "homeassistant"
                 => /\ called
                    /\ "api_key" \notin StrategiesTried(last')
                    /\ keys_db' = keys_db
                    /\ disk' = disk
              /\ mode = "both" => (called <=> ~hit)
              /\ (mode # "homeassistant" /\ hit)
                 => /\ last'.strategies = <<"api_key">>
                    /\ last'.authenticated
                       <=> /\ keys_db[BearerHash(last'.req)]["status"] # "revoked"
                           /\ ~PastGrace(keys_db[BearerHash(last'.req)], now)
              /\ called
                 => /\ last'.authenticated
                       <=> /\ last'.upstream.kind = "response"
                           /\ last'.upstream.status_code = 200
                           /\ last'.upstream.message = ApiRunning
                    /\ last'.authenticated => last'.key_name = "Home Assistant Token"
                    /\ keys_db' = keys_db]_vars

StrategiesInStrictOrderWitness ==
    /\ last.op = "request"
    /\ ~last.req.ingress
    /\ config.auth_mode = "both"
    /\ Len(last.req.authorization) = 2
    /\ BearerHash(last.req) \notin DOMAIN keys_db
    /\ last.upstream.kind = "response"
    /\ last.upstream.status_code = 200
    /\ last.upstream.message # ApiRunning
    /\ last.resp = 401

(* C33: the restart is at most once per rotation: an auto-rotate request
   starts one restart thread exactly when it succeeded, after its changes of
   the key table; a restart call is made only by a started thread and ends that
   thread whether the call succeeded or failed (no retry), leaving the key
   table, the persisted table and the external configuration as they were;
   no other handler starts or ends a restart thread.  Checked under
   SpecRotate. *)
RestartAtMostOncePerRotation ==
    [][/\ last'.op \in {"auto-rotate", "auto-rotate-read"}
          => restart_threads' = IF last'.resp = 200 THEN restart_threads + 1
                                                    ELSE restart_threads
       /\ (last'.op = "auto-rotate" /\ last'.resp = 200)
          => /\ hash_key(last'.new_key) \in DOMAIN keys_db'
             /\ keys_db'[last'.req.key_hash]["status"] \in {"deprecated", "revoked"}
       /\ last'.op = "restart-call"
          => /\ restart_threads > 0
             /\ restart_threads' = restart_threads - 1
             /\ keys_db' = keys_db
             /\ disk' = disk
             /\ addon_options' = addon_options
       /\ last'.op \in {"rotate-key", "revoke-key"}
          => restart_threads' = restart_threads]_vars

RestartAtMostOncePerRotationWitness ==
    /\ last.op = "restart-call"
    /\ last.req.outcome = "exception"
    /\ restart_threads = 0
    /\ AutoRotatedNames # {}

(* C34: a scheduled restart is not cancelled: the request that scheduled it
   has answered while the call is still to be made, no handler takes a started
   thread away, a failed call leaves the configuration, the key table and the
   requests in flight as they were, and with the threads scheduled fairly
   every started thread makes its call unless the process ends first.
   Checked under SpecRotateFair. *)
ScheduledRestartIsPerformed ==
    /\ [][/\ (last'.op = "auto-rotate" /\ last'.resp = 200) => restart_threads' > 0
          /\ restart_threads' < restart_threads
             => last'.op \in {"restart-call", "startup"}
          /\ (last'.op = "restart-call" /\ last'.req.outcome # "ok")
             => /\ config' = config
                /\ keys_db' = keys_db
                /\ auto_rotations' = auto_rotations]_vars
    /\ \A n \in 1..Cardinality(RotationSecrets) :
          (restart_threads = n) ~> (restart_threads < n)

ScheduledRestartIsPerformedWitness ==
    /\ last.op = "restart-call"
    /\ last.req.outcome = "not_ok"
    /\ restart_threads = 0
    /\ auto_rotations # {}

(* C35: the sweep at process start turns every deprecated record whose
   grace_until is earlier than now into a revoked one with revoked_at = now
   and leaves every other record (active, revoked, deprecated within grace) as
   it was; afterwards no record is deprecated with grace_until in the past.
   Checked under Spec, on the records read from the persisted table. *)
SweepRevokesExactlyTheExpired ==
    [][last'.op = "startup"
       => /\ \A h \in DOMAIN disk :
                /\ h \in DOMAIN keys_db'
                /\ PastGrace(disk[h], now)
                   => /\ keys_db'[h]["status"] = "revoked"
                      /\ keys_db'[h]["revoked_at"] = isoformat(now)
                      /\ \A f \in DOMAIN disk[h] \ {"status", "revoked_at"} :
                             keys_db'[h][f] = disk[h][f]
                /\ ~PastGrace(disk[h], now) => keys_db'[h] = disk[h]
          /\ \A h \in DOMAIN keys_db' : ~PastGrace(keys_db'[h], now)]_vars

SweepRevokesExactlyTheExpiredWitness ==
    /\ last.op = "startup"
    /\ \E h, other \in DOMAIN keys_db :
          /\ keys_db[h]["status"] = "revoked"
          /\ keys_db[h]["revoked_at"] = isoformat(now)
          /\ "grace_until" \in DOMAIN keys_db[h]
          /\ fromisoformat(keys_db[h]["grace_until"]) < now
          /\ keys_db[other]["status"] = "active"

(* C36: the legacy import is idempotent and touches no existing record: at a
   process start, importing the configured secrets into the persisted table
   twice gives the table that importing them once gives, the second import
   has nothing to save, and every record whose hash was in the table before,
   whatever its status and usage count, is the same record afterwards.
   Checked under Spec. *)
LegacyImportIsIdempotent ==
    [][last'.op = "startup"
       => LET once == migrate_legacy_keys(disk, addon_options)
              twice == migrate_legacy_keys(once.db, addon_options)
          IN  /\ twice.db = once.db
              /\ ~twice.saved
              /\ \A h \in DOMAIN disk : h \in DOMAIN once.db /\ once.db[h] = disk[h]
              /\ \A i \in 1..Len(addon_options) :
                     hash_key(addon_options[i]) \in DOMAIN keys_db'
              /\ \A h \in DOMAIN disk :
                     keys_db'[h]["usage_count"] = disk[h]["usage_count"]]_vars

LegacyImportIsIdempotentWitness ==
    /\ last.op = "startup"
    /\ \E i \in 1..Len(addon_options) :
          /\ hash_key(addon_options[i]) \in DOMAIN keys_db
          /\ keys_db[hash_key(addon_options[i])]["status"] = "revoked"
          /\ keys_db[hash_key(addon_options[i])]["usage_count"] = 1

(* C37: when the write of the key database fails in an operation that changed
   the table (add_key, deprecate_key, revoke_key, called by generate-key,
   rotate-key and revoke-key), the failure is reported to the caller, which
   therefore does not answer with success, while the change of the in-memory
   table is kept and the file is as it was.  Checked under SpecWrite. *)
WriteFailureIsReported ==
    [][(/\ last'.op \in {"generate-key", "rotate-key", "revoke-key"}
        /\ ~fs_writable
        /\ keys_db' # keys_db)
       => /\ disk' = disk
          /\ last'.resp # 200]_vars

(* C38: only admitted requests consume rate budget: a request rejected by the
   kill-switch, the allow-list or authentication leaves every rate window
   unchanged, and a request the rate limiter denies adds no entry to any
   window.  Checked under SpecGate. *)
OnlyAdmittedRequestsAreCharged ==
    [][last'.op = "request"
       => /\ last'.resp \in {503, 403, 401} => rate_limit_store' = rate_limit_store
          /\ last'.resp = 429
             => \A c \in DOMAIN rate_limit_store' :
                   /\ Len(rate_limit_store'[c]) <= Len(Get(rate_limit_store, c, <<>>))
                   /\ Range(rate_limit_store'[c]) \subseteq Range(Get(rate_limit_store, c, <<>>))
          /\ rate_limit_store' # rate_limit_store
             => last'.resp \in {200, 429}]_vars

OnlyAdmittedRequestsAreChargedWitness ==
    /\ last.op = "request"
    /\ last.resp = 429
    /\ ChargedIdentity(last) \in DOMAIN rate_limit_store
    /\ Len(rate_limit_store[ChargedIdentity(last)]) = config.rate_limit_per_minute
    /\ config.ip_whitelist # {}

(* C40: in the custom component, when an ip_whitelist is configured for the
   supervisor_gateway section, a request to an add-on view (list, info,
   action) from a client address not on the list is answered 403, and the
   x-api-key header is not looked at.  Checked under SpecComponent. *)
ComponentAllowListRejectsFirst ==
    [][(/\ last'.op \in {"component-" \o view : view \in AddonViews}
        /\ Has(hass.conf, "ip_whitelist")
        /\ hass.conf["ip_whitelist"] # {}
        /\ api_get_client_ip(last'.req.request) \notin hass.conf["ip_whitelist"])
       => /\ last'.resp = 403
          /\ last'.trace = <<"whitelist">>]_vars

(* C39: a process start never weakens a key's lifecycle state: every record
   persisted before the start is in the table afterwards, and no record that
   was revoked or deprecated is active afterwards, also when the persisted
   database cannot be read and when the configuration still lists the secret
   of a revoked key.  Checked under SpecRestart. *)
RestartKeepsLifecycleState ==
    [][last'.op \in {"startup", "startup-unreadable"}
       => \A h \in DOMAIN disk :
              /\ h \in DOMAIN keys_db'
              /\ disk[h]["status"] \in {"revoked", "deprecated"}
                 => keys_db'[h]["status"] # "active"]_vars

====
